---- MODULE Spec2Model ----
(***************************************************************************)
(* Model of src/main.rs: a Verlet rope of 12 joints relaxed by an          *)
(* iterative distance-constraint solver, circular enemies that seek the    *)
(* rope's first joint and collide with the rope and with each other, a     *)
(* timed spawner, a despawner that scores, and the mouse drag of joint 0.  *)
(*                                                                         *)
(* Numbers.  The program computes in f32.  The model computes in           *)
(* fixed point: a coordinate or a length is an integer number of           *)
(* thousandths of a unit (SCALE), a unit vector has components in          *)
(* thousandths (UNIT), a random draw in [0,1) is an integer number of      *)
(* thousandths, the spawn timer counts hundredths of a second.  Every      *)
(* product or quotient is rounded to the nearest integer, as f32 rounds    *)
(* to the nearest representable value.  A vector carries a flag nan: the   *)
(* result of normalising the zero vector is NaN in both components, and    *)
(* every operation on a NaN vector is NaN, every comparison with it false. *)
(* Colours are cosmetic and are left out of Rope and Enemy.                *)
(***************************************************************************)
EXTENDS Integers, Sequences, FiniteSets, TLC

VARIABLES
    points,            \* Rope.points, joint k is points[k+1]
    prev_points,       \* Rope.prev_points
    enemies,           \* Model.enemies: sequence of [position, prev_position, radius]
    is_dragging,       \* Model.is_dragging
    drag_index,        \* Model.drag_index: NoneIndex for None, k for Some(k)
    enemy_timer,       \* Model.enemy_timer, in hundredths
    spawn_delay,       \* Model.spawn_delay, in hundredths
    camera_position,   \* Model.camera_position
    score,             \* Model.score
    win,               \* app.window_rect(): [w, h], a rectangle centred on the origin
    mouse,             \* app.mouse.position()
    pc,                \* position of update() within one tick
    substep,           \* index of the loop of update(), line 157
    cstep,             \* index of the loop of update_rope(), line 77
    target_position,   \* local of update(), line 156
    pair_pass,         \* index of the outer loop of constrain_points(), line 84
    pair_i,            \* index of the inner loop of constrain_points(), line 85
    ticks,             \* history: completed calls of update()
    anchor_at_start,   \* history: points[0] when the current tick began
    n_integrate,       \* history: Verlet integrations in the current tick
    n_constrain,       \* history: constrain_points() calls in the current tick
    n_collide,         \* history: check_collisions() calls in the current tick
    spawned            \* history: enemies ever pushed by spawn_enemies()

vars == << points, prev_points, enemies, is_dragging, drag_index, enemy_timer,
           spawn_delay, camera_position, score, win, mouse, pc, substep, cstep,
           target_position, pair_pass, pair_i, ticks, anchor_at_start,
           n_integrate, n_constrain, n_collide, spawned >>

----------------------------------------------------------------------------
(* Bounds of the exploration *)

\* update() is called at most MaxTicks times.
MaxTicks == 51

\* The user acts (mouse, resize) only between these ticks.
EventTicks == {48, 49, 50}

----------------------------------------------------------------------------
(* Fixed-point numbers *)

\* thousandths of a unit per unit
SCALE == 1000

\* a unit vector has length UNIT
UNIT == 1000

Abs(a) == IF a < 0 THEN -a ELSE a

Max(a, b) == IF a < b THEN b ELSE a

\* a / b rounded to the nearest integer, halves away from zero (b > 0)
RDiv(a, b) ==
    IF a >= 0 THEN (2 * a + b) \div (2 * b) ELSE -((2 * (-a) + b) \div (2 * b))

\* Newton's iteration for the integer square root, from a guess g >= sqrt(n)
RECURSIVE Newton(_, _)
Newton(n, g) ==
    LET h == (g + n \div g) \div 2
    IN  IF h >= g THEN g ELSE Newton(n, h)

\* floor of the square root of n, 0 <= n < 2^31
ISqrt(n) ==
    IF n = 0 THEN 0
    ELSE IF n < 10000 THEN Newton(n, 100)
    ELSE IF n < 1000000 THEN Newton(n, 1000)
    ELSE IF n < 100000000 THEN Newton(n, 10000)
    ELSE Newton(n, 46340)

\* the square root of n to the nearest integer
RSqrt(n) ==
    LET r == ISqrt(n)
    IN  IF n - r * r > r THEN r + 1 ELSE r

----------------------------------------------------------------------------
(* Vectors: Point2, Vector2 *)

V(x, y) == [x |-> x, y |-> y, nan |-> FALSE]

NaNV == [x |-> 0, y |-> 0, nan |-> TRUE]

Add(a, b) == IF a.nan \/ b.nan THEN NaNV ELSE V(a.x + b.x, a.y + b.y)

Sub(a, b) == IF a.nan \/ b.nan THEN NaNV ELSE V(a.x - b.x, a.y - b.y)

\* the largest component a squared length may hold without overflow
BIG == 30000

\* v brought into the range where x*x + y*y fits a machine integer and
\* keeps at least three digits; f is the factor v was divided by (f > 0)
\* or multiplied by (f < 0)
Reduced(v) ==
    LET m == Max(Abs(v.x), Abs(v.y))
    IN  IF m > BIG
        THEN LET f == m \div BIG + 1
             IN  [x |-> RDiv(v.x, f), y |-> RDiv(v.y, f), f |-> f]
        ELSE IF m = 0 THEN [x |-> 0, y |-> 0, f |-> 1]
        ELSE LET k == BIG \div m
             IN  [x |-> v.x * k, y |-> v.y * k, f |-> -k]

\* Vector2::length(), of a vector that is not NaN
Length(v) ==
    LET r == Reduced(v)
        l == RSqrt(r.x * r.x + r.y * r.y)
    IN  IF r.f > 0 THEN l * r.f ELSE RDiv(l, -r.f)

\* Point2::distance()
Distance(a, b) == Length(Sub(a, b))

\* Vector2::normalize(): v / v.length(); 0/0 is NaN
Normalize(v) ==
    IF v.nan \/ (v.x = 0 /\ v.y = 0) THEN NaNV
    ELSE LET r == Reduced(v)
             l == RSqrt(r.x * r.x + r.y * r.y)
         IN  V(RDiv(r.x * UNIT, l), RDiv(r.y * UNIT, l))

\* unit vector u times the scalar s
MulUnit(u, s) ==
    IF u.nan THEN NaNV ELSE V(RDiv(u.x * s, UNIT), RDiv(u.y * s, UNIT))

\* v * 0.5
Half(v) == IF v.nan THEN NaNV ELSE V(RDiv(v.x, 2), RDiv(v.y, 2))

\* lerp(a, b, t) and lerp_vec2(a, b, t), t in hundredths
lerp(a, b, t) ==
    IF a.nan \/ b.nan THEN NaNV
    ELSE V(a.x + RDiv((b.x - a.x) * t, 100), a.y + RDiv((b.y - a.y) * t, 100))

----------------------------------------------------------------------------
(* Rope *)

\* model(): count
count == 12

\* model(): start and end of the rope
start == V(0, 0)

end == V(100 * SCALE, 0)

\* Rope::new: segment_length = length / (count - 1)
segment_length == RDiv(Distance(start, end), count - 1)

\* Rope::new: thickness
thickness == 4000

\* Rope::new: points
RopeNew ==
    LET direction == Normalize(Sub(end, start))
    IN  [i \in 1..count |-> Add(start, MulUnit(direction, segment_length * (i - 1)))]

\* update_rope(), lines 68-75: Verlet integration of joints 1..count-1
Integrate(pts, prev) ==
    [pts  |-> [i \in 1..count |->
                  IF i = 1 THEN pts[i]
                  ELSE Add(pts[i], Sub(pts[i], prev[i]))],
     prev |-> [i \in 1..count |-> IF i = 1 THEN prev[i] ELSE pts[i]]]

\* constrain_points(), line 91: delta.normalize() * (difference / 1.2)
Correction(pts, i) ==
    LET delta == Sub(pts[i + 2], pts[i + 1])
    IN  IF delta.nan THEN NaNV
        ELSE MulUnit(Normalize(delta),
                     RDiv((segment_length - Length(delta)) * 10, 12))

\* the inner loop's body without the test of line 92: joint 0 is corrected too
ConstrainPairAnchorToo(pts, i) ==
    LET correction == Correction(pts, i)
    IN  [pts EXCEPT ![i + 1] = Sub(@, correction), ![i + 2] = Add(@, correction)]

\* the inner loop's body giving each joint half of the correction
ConstrainPairHalves(pts, i) ==
    LET correction == Half(Correction(pts, i))
        lower == IF i # 0 THEN [pts EXCEPT ![i + 1] = Sub(@, correction)] ELSE pts
    IN  [lower EXCEPT ![i + 2] = Add(@, correction)]

\* constrain_points(), lines 86-95: the body of the inner loop for joint i
ConstrainPair(pts, i) ==
    LET correction == Correction(pts, i)
        lower == IF i # 0 THEN [pts EXCEPT ![i + 1] = Sub(@, correction)] ELSE pts
    IN  [lower EXCEPT ![i + 2] = Add(@, correction)]

\* constrain_points(): three passes over the pairs 0..points.len()-2
RECURSIVE ConstrainFrom(_, _, _)
ConstrainFrom(pts, pass, i) ==
    IF i = Len(pts) - 1 THEN ConstrainFrom(pts, pass + 1, 0)
    ELSE IF pass = 3 THEN pts
    ELSE ConstrainFrom(ConstrainPair(pts, i), pass, i + 1)

ConstrainPoints(pts) == ConstrainFrom(pts, 0, 0)

\* get_segment_midpoints()
Midpoints(pts) == [i \in 1..(count - 1) |-> Half(Add(pts[i], pts[i + 1]))]

----------------------------------------------------------------------------
(* Enemy *)

\* update(): substeps
substeps == 5

\* update(): delta_time = 0.01 / substeps, in thousandths
delta_time == RDiv(10, substeps)

\* Enemy::new
EnemyNew(position, radius) ==
    [position |-> position, prev_position |-> position, radius |-> radius]

\* Enemy::update
EnemyUpdate(enemy, target, dt) ==
    LET current == enemy.position
        velocity == Sub(current, enemy.prev_position)
        direction == Normalize(Sub(target, current))
    IN  [enemy EXCEPT !.prev_position = current,
                      !.position = Add(Add(current, velocity), MulUnit(direction, dt))]

----------------------------------------------------------------------------
(* check_collisions *)

\* a comparison of a distance with a bound; false when either point is NaN
Within(a, b, bound) == ~a.nan /\ ~b.nan /\ Distance(a, b) < bound

\* direction * overlap * 0.5, overlap = (reach - distance) / substeps
Push(from, to, reach) ==
    LET direction == Normalize(Sub(to, from))
        overlap == RDiv(reach - Distance(to, from), substeps)
    IN  Half(MulUnit(direction, overlap))

\* lines 188-197: enemy e against the joints k..count, in order
RECURSIVE CollideJoints(_, _, _)
CollideJoints(st, e, k) ==
    IF k > count THEN st
    ELSE LET pos == st.ens[e].position
             point == st.pts[k]
             radius == st.ens[e].radius
             offset == Add(point, V(thickness, 0))
         IN  IF Within(pos, offset, radius)
             THEN LET direction == Normalize(Sub(pos, point))
                      overlap == RDiv(radius - Distance(pos, offset), substeps)
                      push == Half(MulUnit(direction, overlap))
                  IN  CollideJoints(
                          [pts |-> [st.pts EXCEPT ![k] = Sub(@, push)],
                           ens |-> [st.ens EXCEPT ![e].position = Add(@, push)]],
                          e, k + 1)
             ELSE CollideJoints(st, e, k + 1)

\* lines 199-207: enemy e against the midpoints m..count-1, in order
RECURSIVE CollideMidpoints(_, _, _, _)
CollideMidpoints(st, mids, e, m) ==
    IF m > count - 1 THEN st
    ELSE LET pos == st.ens[e].position
             dynamic_thickness == RDiv(segment_length, 2)
             reach == st.ens[e].radius + dynamic_thickness
         IN  IF Within(pos, mids[m], reach)
             THEN CollideMidpoints(
                      [st EXCEPT !.ens[e].position = Add(@, Push(mids[m], pos, reach))],
                      mids, e, m + 1)
             ELSE CollideMidpoints(st, mids, e, m + 1)

\* lines 187-208: every enemy against the rope
RECURSIVE CollideRope(_, _, _)
CollideRope(st, mids, e) ==
    IF e > Len(st.ens) THEN st
    ELSE CollideRope(CollideMidpoints(CollideJoints(st, e, 1), mids, e, 1), mids, e + 1)

\* lines 210-221: every pair of enemies i < j
RECURSIVE CollideEnemies(_, _, _)
CollideEnemies(ens, i, j) ==
    IF i > Len(ens) THEN ens
    ELSE IF j > Len(ens) THEN CollideEnemies(ens, i + 1, i + 2)
    ELSE LET reach == ens[i].radius + ens[j].radius
         IN  IF Within(ens[i].position, ens[j].position, reach)
             THEN LET push == Push(ens[j].position, ens[i].position, reach)
                  IN  CollideEnemies(
                          [ens EXCEPT ![i].position = Add(@, push),
                                      ![j].position = Sub(@, push)],
                          i, j + 1)
             ELSE CollideEnemies(ens, i, j + 1)

\* check_collisions(rope, enemies, substeps)
CheckCollisions(pts, ens) ==
    LET st == CollideRope([pts |-> pts, ens |-> ens], Midpoints(pts), 1)
    IN  [pts |-> st.pts, ens |-> CollideEnemies(st.ens, 1, 2)]

----------------------------------------------------------------------------
(* spawn_enemies and despawn_enemies *)

\* Rect::left(), right(), bottom(), top() of window_rect()
Left(r) == -(r.w \div 2)

Right(r) == r.w \div 2

Bottom(r) == -(r.h \div 2)

Top(r) == r.h \div 2

\* spawn_enemies(): margin
SpawnMargin == 1000

\* despawn_enemies(): margin
DespawnMargin == 500000

\* random_f32() * extent, the draw d in thousandths
Fraction(d, extent) == (extent \div 1000) * d + ((extent % 1000) * d) \div 1000

\* spawn_enemies(), lines 291-310: the position for the draws d1, d2, d3
SpawnPosition(r, d1, d2, d3) ==
    IF d1 < 500
    THEN V(IF d2 < 500 THEN Left(r) - SpawnMargin ELSE Right(r) + SpawnMargin,
           Fraction(d3, r.h))
    ELSE V(Fraction(d2, r.w),
           IF d3 < 500 THEN Bottom(r) - SpawnMargin ELSE Top(r) + SpawnMargin)

\* despawn_enemies(), lines 326-329
Outside(enemy, r) ==
    LET x == enemy.position.x
        y == enemy.position.y
        radius == enemy.radius
    IN  /\ ~enemy.position.nan
        /\ \/ x + radius < Left(r) - DespawnMargin
           \/ x - radius > Right(r) + DespawnMargin
           \/ y + radius < Bottom(r) - DespawnMargin
           \/ y - radius > Top(r) + DespawnMargin

\* ens without its element i
Remove(ens, i) == [k \in 1..(Len(ens) - 1) |-> IF k < i THEN ens[k] ELSE ens[k + 1]]

\* despawn_enemies(), lines 321-336: the while loop from index i
RECURSIVE DespawnFrom(_, _, _, _)
DespawnFrom(ens, sc, i, r) ==
    IF i > Len(ens) THEN [ens |-> ens, score |-> sc]
    ELSE IF Outside(ens[i], r) THEN DespawnFrom(Remove(ens, i), sc + 1, i, r)
    ELSE DespawnFrom(ens, sc, i + 1, r)

\* the while loop advancing i after a removal too: the next enemy is skipped
RECURSIVE DespawnSkipping(_, _, _, _)
DespawnSkipping(ens, sc, i, r) ==
    IF i > Len(ens) THEN [ens |-> ens, score |-> sc]
    ELSE IF Outside(ens[i], r) THEN DespawnSkipping(Remove(ens, i), sc + 1, i + 1, r)
    ELSE DespawnSkipping(ens, sc, i + 1, r)

DespawnEnemiesSkipping(ens, sc, r) == DespawnSkipping(ens, sc, 1, r)

\* the while loop without line 332: a removal is not scored
DespawnEnemiesUnscored(ens, sc, r) ==
    [ens |-> DespawnFrom(ens, sc, 1, r).ens, score |-> sc]

\* despawn_enemies()
DespawnEnemies(ens, sc, r) == DespawnFrom(ens, sc, 1, r)

----------------------------------------------------------------------------
(* Inputs *)

\* Option::None of drag_index
NoneIndex == -1

\* the size of a new window
DefaultWindow == [w |-> 1024 * SCALE, h |-> 768 * SCALE]

\* window sizes the user may give the window
Windows == { DefaultWindow, [w |-> 16 * SCALE, h |-> 12 * SCALE] }

\* positions of the pointer, which rests where it is
Cursors == { V(30 * SCALE, 40 * SCALE) }

\* values of random_f32(), in thousandths
Draws == {0, 900}

\* values of random_range(10.0, 20.0)
Radii == {10 * SCALE, 20 * SCALE - 1}

----------------------------------------------------------------------------
(* State after model() *)

Init ==
    /\ points = RopeNew
    /\ prev_points = RopeNew
    /\ enemies = << >>
    /\ is_dragging = FALSE
    /\ drag_index = 0
    /\ enemy_timer = 0
    /\ spawn_delay = 50
    /\ camera_position = V(0, 0)
    /\ score = 0
    /\ win = DefaultWindow
    /\ mouse \in Cursors
    /\ pc = "idle"
    /\ substep = 0
    /\ cstep = 0
    /\ target_position = V(0, 0)
    /\ pair_pass = 0
    /\ pair_i = 0
    /\ ticks = 0
    /\ anchor_at_start = V(0, 0)
    /\ n_integrate = 0
    /\ n_constrain = 0
    /\ n_collide = 0
    /\ spawned = 0

----------------------------------------------------------------------------
(* update(), one action per step *)

\* lines 152-156: accumulate the timer, take the target
TickBegin ==
    /\ pc = "idle"
    /\ ticks < MaxTicks
    /\ enemy_timer' = enemy_timer + 1
    /\ target_position' = points[1]
    /\ anchor_at_start' = points[1]
    /\ substep' = 0
    /\ n_integrate' = 0
    /\ n_constrain' = 0
    /\ n_collide' = 0
    /\ pc' = "integrate"
    /\ UNCHANGED << points, prev_points, enemies, is_dragging, drag_index,
                    spawn_delay, camera_position, score, win, mouse, cstep,
                    pair_pass, pair_i, ticks, spawned >>

\* update_rope() calling constrain_points() once
ConstrainLoopOnce(c) == c < 1

\* the loop of update_rope(), line 77, goes on after c iterations
ConstrainLoop(c) == c < substeps

\* the loop of update(), line 157, goes on after s iterations
SubstepLoop(s) == s < substeps

\* lines 158, 68-75: rope.update(substeps), the integration
RopeIntegrate ==
    /\ pc = "integrate"
    /\ LET r == Integrate(points, prev_points)
       IN  points' = r.pts /\ prev_points' = r.prev
    /\ n_integrate' = n_integrate + 1
    /\ cstep' = 0
    /\ pc' = IF ConstrainLoop(0) THEN "constrain" ELSE "drag"
    /\ UNCHANGED << enemies, is_dragging, drag_index, enemy_timer, spawn_delay,
                    camera_position, score, win, mouse, substep, target_position,
                    pair_pass, pair_i, ticks, anchor_at_start, n_constrain,
                    n_collide, spawned >>

\* lines 77-79: one constrain_points() call of update_rope()
RopeConstrain ==
    /\ pc = "constrain"
    /\ points' = ConstrainPoints(points)
    /\ n_constrain' = n_constrain + 1
    /\ cstep' = cstep + 1
    /\ pc' = IF ConstrainLoop(cstep + 1) THEN "constrain" ELSE "drag"
    /\ UNCHANGED << prev_points, enemies, is_dragging, drag_index, enemy_timer,
                    spawn_delay, camera_position, score, win, mouse, substep,
                    target_position, pair_pass, pair_i, ticks, anchor_at_start,
                    n_integrate, n_collide, spawned >>

\* the drag without the test of line 159
DraggedAlways(pts) ==
    IF drag_index # NoneIndex
    THEN [pts EXCEPT ![drag_index + 1] = lerp(@, mouse, 6)]
    ELSE pts

\* lines 159-166: the points after the drag
Dragged(pts) ==
    IF is_dragging /\ drag_index # NoneIndex
    THEN [pts EXCEPT ![drag_index + 1] = lerp(@, mouse, 6)]
    ELSE pts

Drag ==
    /\ pc = "drag"
    /\ points' = Dragged(points)
    /\ pc' = "enemies"
    /\ UNCHANGED << prev_points, enemies, is_dragging, drag_index, enemy_timer,
                    spawn_delay, camera_position, score, win, mouse, substep,
                    cstep, target_position, pair_pass, pair_i, ticks,
                    anchor_at_start, n_integrate, n_constrain, n_collide,
                    spawned >>

\* the target read from the rope at each call
SeekTargetLive == points[1]

\* line 170: the target handed to Enemy::update
SeekTarget == target_position

\* lines 169-171
StepEnemies ==
    /\ pc = "enemies"
    /\ enemies' = [k \in 1..Len(enemies) |->
                      EnemyUpdate(enemies[k], SeekTarget, delta_time)]
    /\ pc' = "collide"
    /\ UNCHANGED << points, prev_points, is_dragging, drag_index, enemy_timer,
                    spawn_delay, camera_position, score, win, mouse, substep,
                    cstep, target_position, pair_pass, pair_i, ticks,
                    anchor_at_start, n_integrate, n_constrain, n_collide,
                    spawned >>

\* line 174, and the end of the loop body of line 157
Collide ==
    /\ pc = "collide"
    /\ LET r == CheckCollisions(points, enemies)
       IN  points' = r.pts /\ enemies' = r.ens
    /\ n_collide' = n_collide + 1
    /\ substep' = substep + 1
    /\ pc' = IF SubstepLoop(substep + 1) THEN "integrate" ELSE "spawn"
    /\ UNCHANGED << prev_points, is_dragging, drag_index, enemy_timer,
                    spawn_delay, camera_position, score, win, mouse, cstep,
                    target_position, pair_pass, pair_i, ticks, anchor_at_start,
                    n_integrate, n_constrain, spawned >>

\* the test of line 288 with > for >=
SpawnDueLate == enemy_timer > spawn_delay

\* spawn_enemies(), line 288
SpawnDue == enemy_timer >= spawn_delay

\* spawn_enemies(), line 314: the timer after a spawn
TimerAfterSpawn == 0

\* line 177: spawn_enemies()
Spawn ==
    /\ pc = "spawn"
    /\ IF SpawnDue
       THEN \E d1 \in Draws, d2 \in Draws, d3 \in Draws, radius \in Radii :
                /\ enemies' = Append(enemies,
                                  EnemyNew(SpawnPosition(win, d1, d2, d3), radius))
                /\ enemy_timer' = TimerAfterSpawn
                /\ spawned' = spawned + 1
       ELSE UNCHANGED << enemies, enemy_timer, spawned >>
    /\ pc' = "despawn"
    /\ UNCHANGED << points, prev_points, is_dragging, drag_index, spawn_delay,
                    camera_position, score, win, mouse, substep, cstep,
                    target_position, pair_pass, pair_i, ticks, anchor_at_start,
                    n_integrate, n_constrain, n_collide >>

\* line 178: despawn_enemies()
Despawn ==
    /\ pc = "despawn"
    /\ LET r == DespawnEnemies(enemies, score, win)
       IN  enemies' = r.ens /\ score' = r.score
    /\ pc' = "camera"
    /\ UNCHANGED << points, prev_points, is_dragging, drag_index, enemy_timer,
                    spawn_delay, camera_position, win, mouse, substep, cstep,
                    target_position, pair_pass, pair_i, ticks, anchor_at_start,
                    n_integrate, n_constrain, n_collide, spawned >>

\* line 181: the camera follows the target; update() returns
Camera ==
    /\ pc = "camera"
    /\ camera_position' = lerp(camera_position, target_position, 10)
    /\ ticks' = ticks + 1
    /\ pc' = "idle"
    /\ UNCHANGED << points, prev_points, enemies, is_dragging, drag_index,
                    enemy_timer, spawn_delay, score, win, mouse, substep, cstep,
                    target_position, pair_pass, pair_i, anchor_at_start,
                    n_integrate, n_constrain, n_collide, spawned >>

----------------------------------------------------------------------------
(* Events, delivered between two calls of update() *)

\* mouse_pressed()
MousePressed ==
    /\ pc = "idle"
    /\ ticks \in EventTicks
    /\ ~is_dragging
    /\ is_dragging' = TRUE
    /\ drag_index' = 0
    /\ UNCHANGED << points, prev_points, enemies, enemy_timer, spawn_delay,
                    camera_position, score, win, mouse, pc, substep, cstep,
                    target_position, pair_pass, pair_i, ticks, anchor_at_start,
                    n_integrate, n_constrain, n_collide, spawned >>

\* mouse_released()
MouseReleased ==
    /\ pc = "idle"
    /\ ticks \in EventTicks
    /\ is_dragging
    /\ is_dragging' = FALSE
    /\ drag_index' = NoneIndex
    /\ UNCHANGED << points, prev_points, enemies, enemy_timer, spawn_delay,
                    camera_position, score, win, mouse, pc, substep, cstep,
                    target_position, pair_pass, pair_i, ticks, anchor_at_start,
                    n_integrate, n_constrain, n_collide, spawned >>

\* the user resizes the window to r
WindowResized(r) ==
    /\ pc = "idle"
    /\ ticks \in EventTicks
    /\ r # win
    /\ win' = r
    /\ UNCHANGED << points, prev_points, enemies, is_dragging, drag_index,
                    enemy_timer, spawn_delay, camera_position, score, mouse, pc,
                    substep, cstep, target_position, pair_pass, pair_i, ticks,
                    anchor_at_start, n_integrate, n_constrain, n_collide,
                    spawned >>

Update ==
    \/ TickBegin
    \/ RopeIntegrate
    \/ RopeConstrain
    \/ Drag
    \/ StepEnemies
    \/ Collide
    \/ Spawn
    \/ Despawn
    \/ Camera

Next ==
    \/ Update
    \/ MousePressed
    \/ MouseReleased
    \/ \E r \in Windows : WindowResized(r)

Spec == Init /\ [][Next]_vars

----------------------------------------------------------------------------
(* Claims checked under Spec *)

\* C1: a call of Rope::update (the Verlet integration of update_rope and each
\* constrain_points relaxation) leaves joint 0 exactly where it was: only the
\* joints of index >= 1 are written by integration and relaxation.
AnchorInvariance ==
    [][(pc \in {"integrate", "constrain"}) => points'[1] = points[1] ]_vars

\* C1 witness: a rope update has just run on a rope that is in motion, with
\* no drag active and no enemy alive.
AnchorInvarianceWitness ==
    /\ pc = "drag"
    /\ ~is_dragging
    /\ enemies = << >>
    /\ points[2] # prev_points[2]
    /\ points # RopeNew

\* C3: the spawn check adds an enemy only when the timer has reached
\* spawn_delay; it then adds exactly one, with prev_position = position, after
\* the enemies already alive, and resets the timer to zero; otherwise it leaves
\* the enemies and the timer alone.  No other step adds an enemy, and the timer
\* is below spawn_delay after every spawn check.
SpawnGating ==
    [][/\ pc = "spawn" =>
            /\ IF enemy_timer >= spawn_delay
               THEN /\ Len(enemies') = Len(enemies) + 1
                    /\ SubSeq(enemies', 1, Len(enemies)) = enemies
                    /\ enemies'[Len(enemies')].prev_position =
                           enemies'[Len(enemies')].position
                    /\ enemy_timer' = 0
               ELSE enemies' = enemies /\ enemy_timer' = enemy_timer
            /\ enemy_timer' < spawn_delay
       /\ pc # "spawn" => Len(enemies') <= Len(enemies) ]_vars

\* C3 witness: the spawn check has just fired.
SpawnGatingWitness ==
    pc = "despawn" /\ enemy_timer = 0 /\ Len(enemies) = 1 /\ spawned = 1

\* C4: the score starts at 0, never decreases, is changed only by the despawn
\* check, which adds the number of enemies it removes; so the enemies ever
\* spawned are the score plus the enemies alive.
ScoreAccounting ==
    /\ [](spawned = score + Len(enemies))
    /\ []((ticks = 0 /\ pc = "idle") => score = 0)
    /\ [][/\ score' >= score
          /\ score' # score => pc = "despawn"
          /\ pc = "despawn" => score' - score = Len(enemies) - Len(enemies') ]_vars

\* C4 witness: an enemy was spawned, then removed and scored.
ScoreAccountingWitness ==
    score = 1 /\ spawned = 1 /\ enemies = << >>

\* the test of check_collisions, line 189-190, for joint 0 at the start of the call
OverlapsAnchor(enemy) ==
    /\ ~enemy.position.nan
    /\ ~points[1].nan
    /\ Distance(enemy.position, Add(points[1], V(thickness, 0))) < enemy.radius

\* C6 as stated: at the end of a tick in which is_dragging is false, joint 0
\* is where it was at the start of the tick.
AnchorMovedOnlyByDrag ==
    (pc = "camera" /\ ~is_dragging) => points[1] = anchor_at_start

\* C6 amended: joint 0 is written only by the drag step, while is_dragging is
\* true and drag_index is Some(0), and by the collision step, when an enemy
\* is within its radius of joint 0 (offset by the thickness).
AnchorWrittenByDragOrCollision ==
    [][(points'[1] # points[1]) =>
          \/ pc = "drag" /\ is_dragging /\ drag_index = 0
          \/ pc = "collide" /\ \E k \in 1..Len(enemies) : OverlapsAnchor(enemies[k]) ]_vars

\* C6 witness: a tick without drag has run its substeps with an enemy within
\* its radius of joint 0, and the collision step has moved joint 0.
AnchorWrittenWitness ==
    /\ pc = "spawn"
    /\ ~is_dragging
    /\ Len(enemies) >= 1
    /\ n_collide = substeps
    /\ points[1] # anchor_at_start

\* C7 as stated: per tick the integrations, the constrain_points calls and the
\* check_collisions calls are each as many as the substeps.
CadenceOneRelaxation ==
    pc = "spawn" =>
        n_integrate = substeps /\ n_constrain = substeps /\ n_collide = substeps

\* C7 amended: a tick is substeps cycles, each one integration followed by
\* substeps constrain_points calls, then the drag, the enemy steps and one
\* check_collisions; per tick substeps integrations, substeps * substeps
\* constrain_points calls and substeps check_collisions calls.
Cadence ==
    /\ pc = "spawn" =>
           /\ n_integrate = substeps
           /\ n_constrain = substeps * substeps
           /\ n_collide = substeps
    /\ pc \in {"drag", "enemies", "collide"} =>
           /\ n_constrain = substeps * n_integrate
           /\ n_collide = n_integrate - 1
    /\ pc = "constrain" =>
           /\ n_constrain = substeps * (n_integrate - 1) + cstep
           /\ n_collide = n_integrate - 1

\* C7 witness: the substeps of a tick are over.
CadenceWitness ==
    pc = "spawn" /\ n_constrain = 25 /\ n_integrate = 5 /\ n_collide = 5

\* p is on the boundary of the window r moved outward by SpawnMargin
OnSpawnBoundary(p, r) ==
    \/ /\ p.x \in {Left(r) - SpawnMargin, Right(r) + SpawnMargin}
       /\ Bottom(r) <= p.y /\ p.y <= Top(r)
    \/ /\ p.y \in {Bottom(r) - SpawnMargin, Top(r) + SpawnMargin}
       /\ Left(r) <= p.x /\ p.x <= Right(r)

\* C9 as stated: every enemy spawn_enemies creates is on the boundary of the
\* window moved outward by the spawn margin, along one of the four edges, and
\* its radius is in [10, 20).
SpawnOnEdges ==
    [][(pc = "spawn" /\ Len(enemies') > Len(enemies)) =>
          LET e == enemies'[Len(enemies')]
          IN  /\ OnSpawnBoundary(e.position, win)
              /\ 10 * SCALE <= e.radius /\ e.radius < 20 * SCALE]_vars

\* C10: every Enemy::update of a tick is given the position joint 0 had when
\* the tick began, whatever the drag and the collisions did to joint 0 since;
\* it sets prev_position to the position before the step.
SeekSnapshot ==
    [][(pc = "enemies") =>
          /\ Len(enemies') = Len(enemies)
          /\ \A k \in 1..Len(enemies) :
                LET current == enemies[k].position
                    velocity == Sub(current, enemies[k].prev_position)
                    direction == Normalize(Sub(anchor_at_start, current))
                IN  /\ enemies'[k].prev_position = current
                    /\ enemies'[k].position =
                           Add(Add(current, velocity), MulUnit(direction, delta_time)) ]_vars

\* C10 witness: the enemies have stepped in a tick in which joint 0 has
\* already left its position of the start of the tick.
SeekSnapshotWitness ==
    /\ pc = "collide"
    /\ Len(enemies) >= 1
    /\ points[1] # anchor_at_start
    /\ enemies[1].position # enemies[1].prev_position

----------------------------------------------------------------------------
(* One tick from any state.                                                *)
(*                                                                         *)
(* The drag puts joint 0 anywhere, the rope follows, the enemies follow    *)
(* joint 0 and are pushed by the rope and by each other, and the window    *)
(* is resized at will: a tick may begin, or one of its steps may begin,    *)
(* with the rope bent, with enemies anywhere in the plane, and with        *)
(* positions that coincide.  SpecFrame runs update() to its end from such  *)
(* states.                                                                 *)

\* a rope bent at its first joints
RopeBent ==
    [RopeNew EXCEPT ![2] = V(8 * SCALE, 6 * SCALE), ![3] = V(15 * SCALE, 12 * SCALE)]

\* a rope whose joints 1 and 2 coincide
RopeCoincident == [RopeNew EXCEPT ![3] = RopeNew[2]]

\* a rope whose joint 0 has been dragged away
RopePulled == [RopeNew EXCEPT ![1] = V(-20 * SCALE, -10 * SCALE)]

FrameRopes == {RopeNew, RopePulled, RopeCoincident}

\* enemies beyond the despawn margin of every window of Windows
EnemyFarRight == EnemyNew(V(1600 * SCALE, 0), 10 * SCALE)

EnemyFarBelow == EnemyNew(V(0, -1500 * SCALE), 20 * SCALE - 1)

\* an enemy off the top right corner of DefaultWindow grown by DespawnMargin
\* (right 1012, top 884): its circle is outside, its bounding square is not
\* beyond a side
EnemyCorner == EnemyNew(V(1021 * SCALE, 893 * SCALE), 10 * SCALE)

\* an enemy whose circle touches the right side of DefaultWindow grown by
\* DespawnMargin
EnemyTouching == EnemyNew(V(1022 * SCALE, 0), 10 * SCALE)

\* an enemy over the rope
EnemyNear == EnemyNew(V(20 * SCALE, 5 * SCALE), 10 * SCALE)

\* an enemy at joint 0 of RopeNew and of RopeCoincident
EnemyOnAnchor == EnemyNew(RopeNew[1], 10 * SCALE)

\* an enemy at the midpoint of joints 0 and 1 of RopePulled, farther than its
\* radius from every joint
EnemyOnMidpoint == EnemyNew(Midpoints(RopePulled)[1], 10 * SCALE)

FrameEnemies ==
    { << >>,
      << EnemyNear >>,
      << EnemyFarRight, EnemyFarBelow, EnemyNear >>,
      << EnemyNear, EnemyFarRight, EnemyFarBelow, EnemyCorner >>,
      << EnemyCorner, EnemyTouching >>,
      << EnemyOnAnchor >>,
      << EnemyOnMidpoint >>,
      << EnemyNear, EnemyNear >> }

\* the steps of update() a frame may start at
FramePcs == {"idle", "constrain", "collide", "despawn"}

InitFrame ==
    /\ points \in FrameRopes
    /\ prev_points = points
    /\ enemies \in FrameEnemies
    /\ is_dragging \in BOOLEAN
    /\ drag_index = IF is_dragging THEN 0 ELSE NoneIndex
    /\ enemy_timer = 49
    /\ spawn_delay = 50
    /\ camera_position = V(0, 0)
    /\ score = 0
    /\ win \in Windows
    /\ mouse \in Cursors
    /\ pc \in FramePcs
    /\ substep = IF pc = "despawn" THEN substeps ELSE 0
    /\ cstep = IF pc \in {"collide", "despawn"} THEN substeps ELSE 0
    /\ target_position = points[1]
    /\ pair_pass = 0
    /\ pair_i = 0
    /\ ticks = MaxTicks - 1
    /\ anchor_at_start = points[1]
    /\ n_integrate = IF pc = "idle" THEN 0 ELSE IF pc = "despawn" THEN substeps ELSE 1
    /\ n_constrain = IF pc \in {"idle", "constrain"} THEN 0
                     ELSE IF pc = "despawn" THEN substeps * substeps ELSE substeps
    /\ n_collide = IF pc = "despawn" THEN substeps ELSE 0
    /\ spawned = Len(enemies)

SpecFrame == InitFrame /\ [][Update]_vars

----------------------------------------------------------------------------
(* Claims checked under SpecFrame *)

\* the sides of the window r grown by DespawnMargin
GrownLeft(r) == Left(r) - DespawnMargin

GrownRight(r) == Right(r) + DespawnMargin

GrownBottom(r) == Bottom(r) - DespawnMargin

GrownTop(r) == Top(r) + DespawnMargin

\* the distance along one axis from v to the interval [lo, hi]
Gap(v, lo, hi) == IF v < lo THEN lo - v ELSE IF v > hi THEN v - hi ELSE 0

\* the circle of the enemy has no point in the grown window
CircleOutside(enemy) ==
    LET dx == Gap(enemy.position.x, GrownLeft(win), GrownRight(win))
        dy == Gap(enemy.position.y, GrownBottom(win), GrownTop(win))
        radius == enemy.radius
    IN  /\ ~enemy.position.nan
        /\ \/ dx > radius
           \/ dy > radius
           \/ dx * dx + dy * dy > radius * radius

CircleOverlaps(enemy) == ~CircleOutside(enemy)

\* the bounding square of the enemy's circle is beyond one side of the grown
\* window; no comparison holds of a position that is NaN
SquareBeyondSide(enemy) ==
    /\ ~enemy.position.nan
    /\ \/ enemy.position.x + enemy.radius < GrownLeft(win)
       \/ enemy.position.x - enemy.radius > GrownRight(win)
       \/ enemy.position.y + enemy.radius < GrownBottom(win)
       \/ enemy.position.y - enemy.radius > GrownTop(win)

SquareNotBeyond(enemy) == ~SquareBeyondSide(enemy)

\* C2 as stated: despawn_enemies removes exactly the enemies whose circle is
\* entirely outside the window grown by the despawn margin, and keeps the
\* others in order and unchanged.
DespawnCircleBoundary ==
    [][(pc = "despawn") => enemies' = SelectSeq(enemies, CircleOverlaps)]_vars

\* C2 amended: despawn_enemies removes exactly the enemies whose bounding
\* square (centre +- radius on each axis) is strictly beyond one of the four
\* sides of the window grown by the despawn margin; every other enemy, one
\* off a corner with its circle outside and one with a NaN position included,
\* is kept, in order and unchanged; no enemy is skipped, and the score grows
\* by the number removed.
DespawnBoundary ==
    [][(pc = "despawn") =>
          /\ enemies' = SelectSeq(enemies, SquareNotBeyond)
          /\ score' = score + Len(enemies) - Len(enemies')]_vars

\* C2 witness: the despawn check has removed two consecutive enemies and
\* kept an enemy over the rope and an enemy off the corner.
DespawnBoundaryWitness ==
    /\ pc = "camera"
    /\ score = 2
    /\ Len(enemies) = 2
    /\ enemies[2] = EnemyCorner
    /\ CircleOutside(enemies[2])

\* C5 as stated: no joint and no enemy ever holds an undefined position.
AllDefined ==
    /\ \A i \in 1..Len(points) : ~points[i].nan
    /\ \A k \in 1..Len(enemies) :
          ~enemies[k].position.nan /\ ~enemies[k].prev_position.nan

----------------------------------------------------------------------------
(* One constrain_points() call, pair by pair *)

\* a rope whose segments are longer than segment_length
RopeStretched == [i \in 1..count |-> V(12 * SCALE * (i - 1), 0)]

\* a rope whose segments are shorter than segment_length
RopeCompressed == [i \in 1..count |-> V(5 * SCALE * (i - 1), 3 * SCALE * (i - 1))]

RelaxRopes == {RopeBent, RopeStretched, RopeCompressed, RopePulled}

InitRelax ==
    /\ points \in RelaxRopes
    /\ prev_points = points
    /\ enemies = << >>
    /\ is_dragging = FALSE
    /\ drag_index = 0
    /\ enemy_timer = 1
    /\ spawn_delay = 50
    /\ camera_position = V(0, 0)
    /\ score = 0
    /\ win = DefaultWindow
    /\ mouse \in Cursors
    /\ pc = "pair"
    /\ substep = 0
    /\ cstep = 0
    /\ target_position = points[1]
    /\ pair_pass = 0
    /\ pair_i = 0
    /\ ticks = 0
    /\ anchor_at_start = points[1]
    /\ n_integrate = 1
    /\ n_constrain = 0
    /\ n_collide = 0
    /\ spawned = 0

\* constrain_points(), lines 84-97: one iteration of the inner loop
RelaxPair ==
    /\ pc = "pair"
    /\ points' = ConstrainPair(points, pair_i)
    /\ pair_i' = IF pair_i + 1 = Len(points) - 1 THEN 0 ELSE pair_i + 1
    /\ pair_pass' = IF pair_i + 1 = Len(points) - 1 THEN pair_pass + 1 ELSE pair_pass
    /\ pc' = IF pair_i + 1 = Len(points) - 1 /\ pair_pass + 1 = 3 THEN "paired" ELSE "pair"
    /\ UNCHANGED << prev_points, enemies, is_dragging, drag_index, enemy_timer,
                    spawn_delay, camera_position, score, win, mouse, substep,
                    cstep, target_position, ticks, anchor_at_start, n_integrate,
                    n_constrain, n_collide, spawned >>

SpecRelax == InitRelax /\ [][RelaxPair]_vars

\* the offset of line 91 for the pair (pair_i, pair_i + 1):
\* normalize(p[i+1] - p[i]) * ((segment_length - d) / 1.2)
PairOffset ==
    LET delta == Sub(points[pair_i + 2], points[pair_i + 1])
    IN  MulUnit(Normalize(delta), RDiv((segment_length - Length(delta)) * 10, 12))

\* C8 as stated: one relaxation step moves the lower joint by -c/2 (joint 0
\* not at all) and the higher joint by +c/2.
RelaxationHalves ==
    [][(pc = "pair") =>
          /\ points'[pair_i + 2] = Add(points[pair_i + 2], Half(PairOffset))
          /\ points'[pair_i + 1] =
                 IF pair_i = 0 THEN points[pair_i + 1]
                 ELSE Sub(points[pair_i + 1], Half(PairOffset))]_vars

\* C8 amended: one relaxation step moves the lower joint by -c (joint 0 not
\* at all) and the higher joint by +c, the whole offset each, and no other
\* joint; the vector from the lower to the higher joint changes by 2c for an
\* interior pair, twice (rest_length - d) / k along the pair, and by c for
\* the pair of joint 0.
RelaxationFullOffset ==
    [][(pc = "pair") =>
          /\ points'[pair_i + 2] = Add(points[pair_i + 2], PairOffset)
          /\ points'[pair_i + 1] =
                 IF pair_i = 0 THEN points[pair_i + 1]
                 ELSE Sub(points[pair_i + 1], PairOffset)
          /\ \A j \in 1..Len(points) :
                 j \notin {pair_i + 1, pair_i + 2} => points'[j] = points[j]
          /\ Sub(points'[pair_i + 2], points'[pair_i + 1]) =
                 Add(Sub(points[pair_i + 2], points[pair_i + 1]),
                     IF pair_i = 0 THEN PairOffset ELSE Add(PairOffset, PairOffset))]_vars

\* C8 witness: an interior pair has just been relaxed and both its joints
\* have moved.
RelaxationWitness ==
    /\ pc = "pair"
    /\ pair_i >= 2
    /\ points[pair_i] # prev_points[pair_i]
    /\ points[pair_i + 1] # prev_points[pair_i + 1]

====
